---- MODULE Spec2Model ----
(***************************************************************************)
(* Model of the Streamlit application ColdEmailApp (src/app/main.py).      *)
(*                                                                         *)
(* One "rerun" is one execution of main(): ColdEmailApp() (which calls the *)
(* st.cache_resource'd initialize_components), then run(), which renders   *)
(* the sidebar and the main interface and, when the button was pressed     *)
(* with a valid URL, executes process_url.  process_url is split at its    *)
(* calls to the collaborators (load_and_process_url, chain.extract_jobs,   *)
(* portfolio.query_links, chain.write_mail) so that the order of the calls *)
(* is observable; pc is the position inside the script.                    *)
(*                                                                         *)
(* Chain, Portfolio and clean_text live in the modules chains, portfolio   *)
(* and utils; their contracts are those of the design document, sections   *)
(* 4.1 - 4.4.  The language model, the web page and the catalog source are *)
(* the environment: their answers are chosen nondeterministically.         *)
(***************************************************************************)
EXTENDS Integers, Sequences, FiniteSets, TLC

\* ---------------------------------------------------------------- bounds
MaxReruns == 2      \* script executions in one session
MaxJobs == 2        \* postings returned by one extraction
MaxRaw == 2         \* length of a raw page, in characters

\* ------------------------------------------------------------- constants
TopK == 2           \* queryLinks(skills, topK = 2)

\* ------------------------------------------------------------ data model
\* A URL is its scheme prefix followed by the rest; <<>> is the empty input.
Urls == { <<>>, <<"ftp://", "a">>, <<"http://", "a">>, <<"https://", "b">> }

\* Raw page text: "sp" is a whitespace character, "w" a printable one.
Chars == {"sp", "w"}

RECURSIVE SeqsUpTo(_, _)
SeqsUpTo(S, n) ==
    IF n = 0 THEN { <<>> }
    ELSE LET shorter == SeqsUpTo(S, n - 1)
         IN  shorter \cup { Append(s, x) : s \in { t \in shorter : Len(t) = n - 1 }, x \in S }

RawTexts == SeqsUpTo(Chars, MaxRaw)

\* JobPosting: the fields process_url reads (role for the header, skills
\* for the query); skills is an ordered sequence, possibly empty.
Postings ==
    { [role |-> "backend",  skills |-> <<"python", "k8s">>],
      [role |-> "frontend", skills |-> <<"react">>],
      [role |-> "manager",  skills |-> <<>>] }

JobLists == SeqsUpTo(Postings, MaxJobs)

\* The static catalog source: (techstack, link) records, or nothing at all.
FullCatalog ==
    << [techstack |-> {"python", "k8s"}, link |-> "l1"],
       [techstack |-> {"react"},         link |-> "l2"],
       [techstack |-> {"python"},        link |-> "l3"] >>

CatalogSources == { <<>>, FullCatalog }

NoPair == 0         \* st.cache_resource holds no (chain, portfolio) yet

\* Values of the st.cache_data entry of one URL.
Miss == [kind |-> "miss", text |-> <<>>]
NoneValue == [kind |-> "None", text |-> <<>>]
StrValue(t) == [kind |-> "str", text |-> t]

VARIABLES
    resource_cache,  \* st.cache_resource: id of the cached (chain, portfolio), or NoPair
    catalog,         \* the catalog snapshot held by the cached Portfolio
    load_calls,      \* number of portfolio.load_portfolio() invocations so far
    data_cache,      \* st.cache_data of load_and_process_url: URL -> entry
    session_state,   \* st.session_state, restricted to generated_count
    reruns,          \* script executions so far
    pc,              \* position in the script
    url,             \* url_input of the current run
    components,      \* the (chain, portfolio) pair run() obtained
    cleaned_data,    \* return value of load_and_process_url in this run
    jobs,            \* return value of chain.extract_jobs in this run
    idx,             \* loop index of `for idx, job in enumerate(jobs, 1)`
    links,           \* return value of the last portfolio.query_links
    results,         \* the rendered per-posting results of this run
    calls,           \* collaborator calls made in this run, in order
    display,         \* what the run has shown to the user, in order
    outcome,         \* how the run ended ("running" while it has not)
    failed,          \* (history) stages that failed in this run
    fetched,         \* (history) the run invoked WebBaseLoader.load
    load_failed,     \* (history) URLs whose latest load returned None
    completed_sum    \* (history) sum of len(jobs) over fully completed runs

appv == <<resource_cache, catalog, load_calls>>
runv == <<pc, url, components, cleaned_data, jobs, idx, links, results,
          calls, display, outcome, failed, fetched>>
vars == <<resource_cache, catalog, load_calls, data_cache, session_state,
          reruns, pc, url, components, cleaned_data, jobs, idx, links,
          results, calls, display, outcome, failed, fetched, load_failed,
          completed_sum>>

EmptyState == [k \in {} |-> 0]

Init ==
    /\ resource_cache = NoPair
    /\ catalog = <<>>
    /\ load_calls = 0
    /\ data_cache = [u \in Urls |-> Miss]
    /\ session_state = EmptyState
    /\ reruns = 0
    /\ pc = "idle"
    /\ url = <<>>
    /\ components = NoPair
    /\ cleaned_data = NoneValue
    /\ jobs = <<>>
    /\ idx = 0
    /\ links = <<>>
    /\ results = <<>>
    /\ calls = <<>>
    /\ display = <<>>
    /\ outcome = "none"
    /\ failed = {}
    /\ fetched = FALSE
    /\ load_failed = {}
    /\ completed_sum = 0

\* ------------------------------------------------------- pure functions
Range(s) == { s[i] : i \in DOMAIN s }

Min(a, b) == IF a < b THEN a ELSE b

\* url_input is acceptable: non-empty and starting with http:// or https://
IsValidUrl(u) == u /= <<>> /\ Head(u) \in {"http://", "https://"}

\* clean_text: runs of whitespace collapse to one, a trailing run vanishes.
RECURSIVE Collapse(_)
Collapse(s) ==
    IF s = <<>> THEN <<>>
    ELSE IF Head(s) = "sp"
         THEN IF Tail(s) = <<>> THEN <<>>
              ELSE IF Head(Tail(s)) = "sp" THEN Collapse(Tail(s))
                   ELSE <<"sp">> \o Collapse(Tail(s))
         ELSE <<Head(s)>> \o Collapse(Tail(s))

\* clean_text: collapsed whitespace, no leading or trailing whitespace.
clean_text(raw) ==
    LET c == Collapse(raw)
    IN  IF c /= <<>> /\ Head(c) = "sp" THEN Tail(c) ELSE c

\* A check `is not None` in place of truthiness.
Truthy_NoneOnly(v) == v.kind = "str"

\* Python truthiness of Optional[str]: None and "" are falsy.
Truthy(v) == v.kind = "str" /\ v.text /= <<>>

\* Similarity of a catalog entry to a skill sequence.
Score(e, skills) == Cardinality(e.techstack \cap Range(skills))

\* Entry j comes before entry i: more similar, or as similar and inserted first.
Beats(cat, skills, j, i) ==
    \/ Score(cat[j], skills) > Score(cat[i], skills)
    \/ Score(cat[j], skills) = Score(cat[i], skills) /\ j < i

Rank(cat, skills, i) ==
    Cardinality({ j \in DOMAIN cat : Beats(cat, skills, j, i) })

\* portfolio.query_links(skills): fails on an empty or unloaded catalog,
\* returns nothing for no skills, otherwise the links of the TopK nearest
\* entries in descending similarity.
query_links(cat, skills) ==
    IF cat = <<>> THEN [ok |-> FALSE, links |-> <<>>]
    ELSE IF skills = <<>> THEN [ok |-> TRUE, links |-> <<>>]
    ELSE [ok |-> TRUE,
          links |-> [p \in 1..Min(TopK, Len(cat)) |->
                       cat[CHOOSE i \in DOMAIN cat : Rank(cat, skills, i) = p - 1].link]]

\* Answers of the language model to a composition request.
LlmAnswers == {"text", "empty", "timeout"}

\* chain.write_mail(job, links): the email text refers to the posting and to
\* the links it was given; an empty answer is a CompositionError, a failure
\* of the completion interface is passed on.
write_mail(job, lnks, llm) ==
    IF llm = "text"
    THEN [ok |-> TRUE, email |-> [role |-> job.role, refs |-> lnks], err |-> "none"]
    ELSE [ok |-> FALSE, email |-> [role |-> job.role, refs |-> <<>>],
          err |-> IF llm = "empty" THEN "CompositionError" ELSE "TimeoutError"]

\* --------------------------------------------------- environment answers
LoadOutcomes ==
    { [ok |-> FALSE, entries |-> <<>>] }
        \cup { [ok |-> TRUE, entries |-> c] : c \in CatalogSources }

LoaderOutcomes ==
    { [kind |-> "raise", raw |-> <<>>], [kind |-> "nodata", raw |-> <<>>] }
        \cup { [kind |-> "page", raw |-> r] : r \in RawTexts }

ExtractOutcomes ==
    { [ok |-> FALSE, jobs |-> <<>>] }
        \cup { [ok |-> TRUE, jobs |-> j] : j \in JobLists }

\* ----------------------------------------------------------- UI elements
ErrorElem(msg) == [t |-> "error", msg |-> msg]
WarningElem == [t |-> "warning"]
HeaderElem(i, job) == [t |-> "header", idx |-> i, role |-> job.role]
EmailElem(i, e) == [t |-> "email", idx |-> i, email |-> e]
SuccessElem(n) == [t |-> "success", n |-> n]

Call(op, i) == [op |-> op, i |-> i]

\* ------------------------------------------------------------ operations

\* A resource cache that never serves its stored value.
CacheResourceHit_Never == FALSE

\* @st.cache_resource: a stored return value is served without running the
\* function body; the key ignores the underscore-prefixed _self argument.
CacheResourceHit == resource_cache /= NoPair

\* initialize_components: Chain(), Portfolio(), portfolio.load_portfolio();
\* the pair is cached on success, an exception is logged and re-raised
\* (and not cached).  components = NoPair stands for the raised exception.
initialize_components(src) ==
    IF CacheResourceHit
    THEN /\ components' = resource_cache
         /\ UNCHANGED appv
    ELSE /\ load_calls' = load_calls + 1
         /\ IF src.ok
            THEN /\ resource_cache' = load_calls + 1
                 /\ catalog' = src.entries
                 /\ components' = load_calls + 1
            ELSE /\ components' = NoPair
                 /\ UNCHANGED <<resource_cache, catalog>>

\* A sidebar that sets the counter without looking whether it exists.
render_sidebar_AlwaysReset == session_state' = [generated_count |-> 0]

\* render_sidebar: generated_count is created at 0 when the session lacks it.
render_sidebar ==
    session_state' =
        IF "generated_count" \in DOMAIN session_state
        THEN session_state
        ELSE [generated_count |-> 0]

\* A handler that shows a fixed text instead of str(e).
HandleException_Generic(shown, msg) ==
    /\ display' = Append(shown, ErrorElem("An error occurred"))
    /\ outcome' = "error"
    /\ pc' = "idle"

\* A handler that only logs.
HandleException_LogOnly(shown, msg) ==
    /\ display' = shown
    /\ outcome' = "rendered"
    /\ pc' = "idle"

\* except Exception as e: logged, shown with st.error(str(e)); the run ends.
HandleException(shown, msg) ==
    /\ display' = Append(shown, ErrorElem(msg))
    /\ outcome' = "error"
    /\ pc' = "idle"

\* The locals of process_url before it starts.
ResetRun ==
    /\ cleaned_data' = NoneValue
    /\ jobs' = <<>>
    /\ idx' = 0
    /\ links' = <<>>
    /\ results' = <<>>
    /\ calls' = <<>>
    /\ fetched' = FALSE

\* render_main_interface up to the call of process_url.
render_main_interface(u, submit) ==
    /\ url' = u
    /\ failed' = {}
    /\ IF ~submit
       THEN /\ display' = <<>>
            /\ outcome' = "rendered"
            /\ pc' = "idle"
       ELSE IF ~IsValidUrl(u)
            THEN /\ display' = <<ErrorElem("invalid url")>>
                 /\ outcome' = "invalid_url"
                 /\ pc' = "idle"
            ELSE /\ display' = <<>>
                 /\ outcome' = "running"
                 /\ pc' = "load"

\* main(): ColdEmailApp() then app.run().  An exception of
\* initialize_components leaves ColdEmailApp.__init__ and main() uncaught:
\* the script stops and the exception is shown.
main(u, submit, src) ==
    /\ pc = "idle"
    /\ reruns < MaxReruns
    /\ reruns' = reruns + 1
    /\ initialize_components(src)
    /\ ResetRun
    /\ IF components' = NoPair
       THEN /\ url' = u
            /\ failed' = {"init"}
            /\ display' = <<ErrorElem("init")>>
            /\ outcome' = "init_exception"
            /\ pc' = "idle"
            /\ UNCHANGED session_state
       ELSE /\ render_sidebar
            /\ render_main_interface(u, submit)
    /\ UNCHANGED <<data_cache, load_failed, completed_sum>>

\* The body of load_and_process_url: None when the loader raises or returns
\* no documents, else the cleaned page content.
LoaderResult(o) ==
    IF o.kind = "page" THEN StrValue(clean_text(o.raw)) ELSE NoneValue

\* @st.cache_data: the return value of a call is stored under its argument.
CacheDataStore(cache, u, v) == [cache EXCEPT ![u] = v]

\* process_url, step 1: cleaned_data = self.load_and_process_url(url),
\* through st.cache_data; a falsy value ends the run with st.error.
LoadUrl(o) ==
    /\ pc = "load"
    /\ LET cached == data_cache[url].kind /= "miss"
           value == IF cached THEN data_cache[url] ELSE LoaderResult(o)
       IN  /\ data_cache' = IF cached THEN data_cache
                            ELSE CacheDataStore(data_cache, url, value)
           /\ fetched' = ~cached
           /\ cleaned_data' = value
           /\ calls' = Append(calls, Call("load", 0))
           /\ load_failed' = IF value.kind = "None"
                             THEN load_failed \cup {url}
                             ELSE load_failed \ {url}
           /\ failed' = IF ~cached /\ o.kind /= "page"
                        THEN failed \cup {"load"} ELSE failed
           /\ IF ~Truthy(value)
              THEN /\ display' = Append(display, ErrorElem("Failed to load content"))
                   /\ outcome' = "load_failed"
                   /\ pc' = "idle"
              ELSE /\ pc' = "extract"
                   /\ UNCHANGED <<display, outcome>>
    /\ UNCHANGED <<appv, session_state, reruns, url, components, jobs, idx,
                   links, results, completed_sum>>

\* The ttl of an st.cache_data entry elapses.
CacheExpire(u) ==
    /\ pc = "idle"
    /\ data_cache[u].kind /= "miss"
    /\ data_cache' = [data_cache EXCEPT ![u] = Miss]
    /\ UNCHANGED <<appv, session_state, reruns, runv, load_failed, completed_sum>>

\* A test of the extraction result that never sees "no postings".
NoJobs_Never(j) == FALSE

\* `if not jobs`: the extraction returned no postings.
NoJobs(j) == j = <<>>

\* process_url, step 2: jobs = chain.extract_jobs(cleaned_data); no jobs
\* ends the run with st.warning.
ExtractJobs(r) ==
    /\ pc = "extract"
    /\ calls' = Append(calls, Call("extract", 0))
    /\ IF ~r.ok
       THEN /\ HandleException(display, "ExtractionError")
            /\ failed' = failed \cup {"extract"}
            /\ UNCHANGED <<jobs, idx>>
       ELSE IF NoJobs(r.jobs)
            THEN /\ display' = Append(display, WarningElem)
                 /\ outcome' = "no_jobs"
                 /\ pc' = "idle"
                 /\ UNCHANGED <<jobs, idx, failed>>
            ELSE /\ jobs' = r.jobs
                 /\ idx' = 1
                 /\ pc' = IF Len(r.jobs) >= 1 THEN "query" ELSE "finish"
                 /\ UNCHANGED <<display, outcome, failed>>
    /\ UNCHANGED <<appv, data_cache, session_state, reruns, url, components,
                   cleaned_data, links, results, fetched, load_failed,
                   completed_sum>>

\* A loop body that goes on to compose, with no links, when the query fails.
QueryLinks_IgnoreFailure(unavailable) ==
    /\ pc = "query"
    /\ LET job == jobs[idx]
           r == IF unavailable THEN [ok |-> FALSE, links |-> <<>>]
                ELSE query_links(catalog, job.skills)
       IN  /\ calls' = Append(calls, Call("query", idx))
           /\ links' = r.links
           /\ display' = Append(display, HeaderElem(idx, job))
           /\ pc' = "write"
           /\ failed' = IF r.ok THEN failed ELSE failed \cup {"query"}
           /\ UNCHANGED outcome
    /\ UNCHANGED <<appv, data_cache, session_state, reruns, url, components,
                   cleaned_data, jobs, idx, results, fetched, load_failed,
                   completed_sum>>

\* Loop body, first half: the posting's header, then
\* links = portfolio.query_links(skills).  The vector store may also be
\* unreachable at the time of the call.
QueryLinks(unavailable) ==
    /\ pc = "query"
    /\ LET job == jobs[idx]
           shown == Append(display, HeaderElem(idx, job))
           r == IF unavailable THEN [ok |-> FALSE, links |-> <<>>]
                ELSE query_links(catalog, job.skills)
       IN  /\ calls' = Append(calls, Call("query", idx))
           /\ IF ~r.ok
              THEN /\ HandleException(shown, "CatalogUnavailableError")
                   /\ failed' = failed \cup {"query"}
                   /\ UNCHANGED links
              ELSE /\ links' = r.links
                   /\ display' = shown
                   /\ pc' = "write"
                   /\ UNCHANGED <<outcome, failed>>
    /\ UNCHANGED <<appv, data_cache, session_state, reruns, url, components,
                   cleaned_data, jobs, idx, results, fetched, load_failed,
                   completed_sum>>

\* Loop body, second half: email = chain.write_mail(job, links), shown with
\* st.code; then the next posting, or the statements after the loop.
WriteMail(llm) ==
    /\ pc = "write"
    /\ LET job == jobs[idx]
           r == write_mail(job, links, llm)
       IN  /\ calls' = Append(calls, Call("write", idx))
           /\ IF ~r.ok
              THEN /\ HandleException(display, r.err)
                   /\ failed' = failed \cup {"write"}
                                  \cup (IF llm = "timeout" THEN {"timeout"} ELSE {})
                   /\ UNCHANGED <<results, idx>>
              ELSE /\ results' = Append(results,
                          [job |-> job, links |-> links, email |-> r.email])
                   /\ display' = Append(display, EmailElem(idx, r.email))
                   /\ IF idx < Len(jobs)
                      THEN idx' = idx + 1 /\ pc' = "query"
                      ELSE idx' = idx /\ pc' = "finish"
                   /\ UNCHANGED <<outcome, failed>>
    /\ UNCHANGED <<appv, data_cache, session_state, reruns, url, components,
                   cleaned_data, jobs, links, fetched, load_failed,
                   completed_sum>>

\* After the loop: st.session_state.generated_count += len(jobs), success.
Finish ==
    /\ pc = "finish"
    /\ session_state' = [session_state EXCEPT
                            !.generated_count = @ + Len(jobs)]
    /\ completed_sum' = completed_sum + Len(jobs)
    /\ display' = Append(display, SuccessElem(Len(jobs)))
    /\ outcome' = "success"
    /\ pc' = "idle"
    /\ UNCHANGED <<appv, data_cache, reruns, url, components, cleaned_data,
                   jobs, idx, links, results, calls, failed, fetched,
                   load_failed>>

Next ==
    \/ \E u \in Urls, submit \in BOOLEAN, src \in LoadOutcomes : main(u, submit, src)
    \/ \E o \in LoaderOutcomes : LoadUrl(o)
    \/ \E u \in Urls : CacheExpire(u)
    \/ \E r \in ExtractOutcomes : ExtractJobs(r)
    \/ \E unavailable \in BOOLEAN : QueryLinks(unavailable)
    \/ \E llm \in LlmAnswers : WriteMail(llm)
    \/ Finish

Spec == Init /\ [][Next]_vars

\* ================================================================ claims
Last(s) == s[Len(s)]

Called(op, i) == \E k \in DOMAIN calls : calls[k] = Call(op, i)

NoMatchingOrComposition ==
    \A k \in DOMAIN calls : calls[k].op \notin {"query", "write"}

ShowsError == \E k \in DOMAIN display : display[k].t = "error"

RunEnded == pc = "idle" /\ outcome /= "none"

GeneratedCount ==
    IF "generated_count" \in DOMAIN session_state
    THEN session_state.generated_count ELSE 0

\* C1: when composition fails for one posting of a run over two or more
\* postings, every other posting is still matched and composed and the
\* emails of the earlier postings are kept.
C1_CompositionFailureIsolated ==
    (RunEnded /\ "write" \in failed /\ Len(jobs) >= 2)
        => /\ \A j \in (1..Len(jobs)) \ {idx} :
                  Called("query", j) /\ Called("write", j)
           /\ \A j \in 1..(idx - 1) : results[j].job = jobs[j]

\* C2: an extraction that returns zero postings ends the run with a warning
\* and nothing else: no portfolio query, no composition, no error shown,
\* no result, and an outcome other than that of a failed extraction.
C2_ZeroPostingsEndsCleanly ==
    (calls /= <<>> /\ Last(calls).op = "extract" /\ "extract" \notin failed
        /\ jobs = <<>>)
        => /\ pc = "idle"
           /\ outcome = "no_jobs"
           /\ NoMatchingOrComposition
           /\ ~ShowsError
           /\ display /= <<>>
           /\ Last(display).t = "warning"
           /\ results = <<>>
           /\ failed = {}

C2_Witness ==
    /\ outcome = "no_jobs"
    /\ calls = <<Call("load", 0), Call("extract", 0)>>
    /\ reruns >= 2

\* C3: a failed extraction ends the run in the error state, the extraction
\* error itself is what the user is shown, and the run neither queries the
\* portfolio nor composes.
C3_ExtractionFailureReported ==
    ("extract" \in failed)
        => /\ pc = "idle"
           /\ outcome = "error"
           /\ display /= <<>>
           /\ Last(display) = ErrorElem("ExtractionError")
           /\ NoMatchingOrComposition
           /\ results = <<>>

C3_Witness ==
    /\ "extract" \in failed
    /\ Last(calls) = Call("extract", 0)
    /\ pc = "idle"

\* C4: when the catalog is unavailable - load_portfolio fails during
\* initialization, or query_links fails for a posting - the run is over and
\* write_mail is called neither for that posting nor for a later one.
C4_CatalogUnavailableAborts ==
    /\ ("init" \in failed) => (pc = "idle" /\ calls = <<>> /\ results = <<>>)
    /\ ("query" \in failed)
          => /\ pc = "idle"
             /\ outcome = "error"
             /\ Last(calls) = Call("query", idx)
             /\ \A j \in idx..Len(jobs) : ~Called("write", j)
             /\ Len(results) = idx - 1

C4_Witness ==
    /\ "query" \in failed
    /\ idx = 2
    /\ Called("write", 1)
    /\ catalog /= <<>>

\* C5: the calls of a run come in the order load, extract, then query and
\* write alternating posting by posting; extract_jobs follows a load that
\* returned non-empty text, query_links(i) follows the extraction that
\* returned posting i, write_mail(i) directly follows query_links(i), and
\* the run succeeds only after every posting was queried and composed.
C5_StagesInOrder ==
    /\ \A k \in DOMAIN calls :
          /\ calls[k].op = "load" => k = 1
          /\ calls[k].op = "extract"
                => /\ k = 2
                   /\ calls[1].op = "load"
                   /\ cleaned_data.kind = "str"
                   /\ cleaned_data.text /= <<>>
          /\ calls[k].op = "query"
                => /\ k = 2 * calls[k].i + 1
                   /\ calls[2].op = "extract"
                   /\ calls[k].i \in 1..Len(jobs)
          /\ calls[k].op = "write"
                => /\ k = 2 * calls[k].i + 2
                   /\ calls[k - 1] = Call("query", calls[k].i)
    /\ pc \in {"finish"} \/ outcome = "success"
          => /\ Len(jobs) >= 1
             /\ Len(calls) = 2 + 2 * Len(jobs)
             /\ \A j \in 1..Len(jobs) : Called("query", j) /\ Called("write", j)

C5_Witness ==
    /\ outcome = "success"
    /\ Len(jobs) = 2
    /\ Len(calls) = 6

\* C6: a run that ended after extracting postings, without a catalog
\* failure, carries for every posting, in order, either its result (the
\* posting, the links queried for its skills, the email written from both)
\* or the failure reported for it.
C6_OneResultPerPosting ==
    (RunEnded /\ jobs /= <<>> /\ "query" \notin failed)
        => \A j \in 1..Len(jobs) :
              \/ /\ j <= Len(results)
                 /\ results[j].job = jobs[j]
                 /\ results[j].links = query_links(catalog, jobs[j].skills).links
                 /\ results[j].email = write_mail(jobs[j], results[j].links, "text").email
              \/ /\ "write" \in failed
                 /\ j = idx
                 /\ Last(display).t = "error"

C8_CatalogLoadedOnce ==
    /\ [](components /= NoPair => components = resource_cache)
    /\ [][ /\ resource_cache /= NoPair
              => /\ resource_cache' = resource_cache
                 /\ load_calls' = load_calls
                 /\ catalog' = catalog
           /\ pc /= "idle" => catalog' = catalog ]_vars

C8_Witness ==
    /\ reruns = 2
    /\ load_calls = 1
    /\ resource_cache = 1
    /\ components = 1
    /\ outcome = "success"

\* C9: generated_count changes only in the step after the loop of a run in
\* which every posting was matched and composed, by the number of postings
\* of that run; it always equals the sum over the completed runs.
C9_CounterCountsCompletedRuns ==
    /\ [](GeneratedCount = completed_sum)
    /\ [][ GeneratedCount' /= GeneratedCount
              => /\ pc = "finish"
                 /\ failed = {}
                 /\ Len(results) = Len(jobs)
                 /\ \A j \in 1..Len(jobs) : Called("query", j) /\ Called("write", j)
                 /\ GeneratedCount' = GeneratedCount + Len(jobs) ]_vars

C9_Witness ==
    /\ GeneratedCount = 3
    /\ reruns = 2
    /\ outcome = "success"

\* C10: a run for a URL whose previous load returned None fetches the page
\* again; a failed load is never served from the cache.
C10_FailedLoadRefetched ==
    [][ (pc = "load" /\ pc' /= "load" /\ url \in load_failed) => fetched' ]_vars

====
